---- MODULE Spec2Model ----
(***************************************************************************)
(* FP32WithFlag (src/src/fp32_with_flag.rs): one f32 and one boolean flag  *)
(* packed in the 4 little-endian bytes of the f32, the flag in bit 0 of    *)
(* byte SMALL_BYTE.                                                        *)
(*                                                                         *)
(* An f32 is modelled by its IEEE-754 fields (header comment, lines 11-14):*)
(*   [sign |-> bit 31, exp |-> bits 30..23, frac |-> bits 22..0]           *)
(* so two f32 are equal here exactly when their 32 bits are equal.         *)
(* The struct's field num_ar is a function 0..3 -> 0..255.                 *)
(***************************************************************************)
EXTENDS Integers, FiniteSets, Sequences, TLC

VARIABLES live, num_ar, op, val, flag, pre_ar, res, out_val, out_flag,
          new_val, flags_only

vars == <<live, num_ar, op, val, flag, pre_ar, res, out_val, out_flag,
          new_val, flags_only>>

(* ------------------------------ inputs --------------------------------- *)

\* Fractions 0..MaxLowFrac are enumerated besides the named ones.
MaxLowFrac == 3

SMALL_BYTE == 0

F32(s, e, f) == [sign |-> s, exp |-> e, frac |-> f]

Signs == {0, 1}

\* 0: zeros and subnormals, 128: 2.0 and 3.3, 130: 10.0, 255: inf and NaN.
Exponents == {0, 128, 130, 255}

\* 2^21: fraction of 10.0, 5452595 = 0x533333: fraction of 3.3,
\* 2^22: the quiet bit of f32::NAN, 2^23 - 1: all ones.
Fractions == (0..MaxLowFrac) \cup {2^21, 5452595, 2^22, 2^23 - 1}

F32Inputs == {F32(s, e, f) : s \in Signs, e \in Exponents, f \in Fractions}

PosZero == F32(0, 0, 0)
NegZero == F32(1, 0, 0)
INFINITY == F32(0, 255, 0)
NEG_INFINITY == F32(1, 255, 0)
NAN == F32(0, 255, 2^22)

NoBytes == [i \in 0..3 |-> 0]

(* --------------------------- u8 arithmetic ----------------------------- *)

Bit(x, i) == (x \div 2^i) % 2

BitOr(a, b) ==
    LET w(i) == IF Bit(a, i) = 1 \/ Bit(b, i) = 1 THEN 2^i ELSE 0
    IN  w(0) + w(1) + w(2) + w(3) + w(4) + w(5) + w(6) + w(7)

BitAnd(a, b) ==
    LET w(i) == IF Bit(a, i) = 1 /\ Bit(b, i) = 1 THEN 2^i ELSE 0
    IN  w(0) + w(1) + w(2) + w(3) + w(4) + w(5) + w(6) + w(7)

BitNot(a) == 255 - a

Shl(a, n) == (a * 2^n) % 256

Shr(a, n) == a \div 2^n

set_bit(byte, n_bit) == BitOr(byte, Shl(1, n_bit))

clear_bit(byte, n_bit) == BitAnd(byte, BitNot(Shl(1, n_bit)))

check_bit(byte, n_bit) == BitAnd(Shr(byte, n_bit), 1)

(* ------------------------------ f32 ------------------------------------ *)

is_nan(v) == v.exp = 255 /\ v.frac # 0

\* Byte 0 holds bits 7..0, byte 3 holds bits 31..24.
to_le_bytes(v) ==
    [i \in 0..3 |->
        CASE i = 0 -> v.frac % 256
          [] i = 1 -> (v.frac \div 256) % 256
          [] i = 2 -> (v.exp % 2) * 128 + (v.frac \div 65536)
          [] i = 3 -> v.sign * 128 + (v.exp \div 2)]

from_le_bytes(b) ==
    F32(b[3] \div 128,
        (b[3] % 128) * 2 + (b[2] \div 128),
        (b[2] % 128) * 65536 + b[1] * 256 + b[0])

(* --------------------------- FP32WithFlag ------------------------------ *)

\* new without the assert of line 61.
new_no_assert(v, f) ==
    LET new_val0 == to_le_bytes(v)
        new_val1 == IF f
                    THEN [new_val0 EXCEPT ![SMALL_BYTE] = set_bit(new_val0[SMALL_BYTE], 0)]
                    ELSE [new_val0 EXCEPT ![SMALL_BYTE] = clear_bit(new_val0[SMALL_BYTE], 0)]
    IN  [panic |-> FALSE, num_ar |-> new_val1]

\* new whose assert compares with the constant f32::NAN only.
new_one_nan(v, f) ==
    IF v = NAN
    THEN [panic |-> TRUE, num_ar |-> NoBytes]
    ELSE new_no_assert(v, f)

\* new that puts the flag in the last byte (big-endian index of the low byte).
new_last_byte(v, f) ==
    IF is_nan(v)
    THEN [panic |-> TRUE, num_ar |-> NoBytes]
    ELSE LET new_val0 == to_le_bytes(v)
             new_val1 == IF f
                         THEN [new_val0 EXCEPT ![3] = set_bit(new_val0[3], 0)]
                         ELSE [new_val0 EXCEPT ![3] = clear_bit(new_val0[3], 0)]
         IN  [panic |-> FALSE, num_ar |-> new_val1]

new(v, f) ==
    IF is_nan(v)
    THEN [panic |-> TRUE, num_ar |-> NoBytes]
    ELSE LET new_val0 == to_le_bytes(v)
             new_val1 == IF f
                         THEN [new_val0 EXCEPT ![SMALL_BYTE] = set_bit(new_val0[SMALL_BYTE], 0)]
                         ELSE [new_val0 EXCEPT ![SMALL_BYTE] = clear_bit(new_val0[SMALL_BYTE], 0)]
         IN  [panic |-> FALSE, num_ar |-> new_val1]

\* get_val without the clear_bit of line 79.
get_val_no_clear(self) ==
    [self |-> self, ret |-> from_le_bytes(self)]

\* get_val that clears bit 1 instead of bit 0.
get_val_bit1(self) ==
    LET new_num0 == self
        new_num1 == [new_num0 EXCEPT ![SMALL_BYTE] = clear_bit(new_num0[SMALL_BYTE], 1)]
    IN  [self |-> self, ret |-> from_le_bytes(new_num1)]

\* get_val that clears the bit in self.num_ar instead of in a clone.
get_val_in_place(self) ==
    LET new_num1 == [self EXCEPT ![SMALL_BYTE] = clear_bit(self[SMALL_BYTE], 0)]
    IN  [self |-> new_num1, ret |-> from_le_bytes(new_num1)]

get_val(self) ==
    LET new_num0 == self
        new_num1 == [new_num0 EXCEPT ![SMALL_BYTE] = clear_bit(new_num0[SMALL_BYTE], 0)]
    IN  [self |-> self, ret |-> from_le_bytes(new_num1)]

\* set_val that stores val as it is, without re-applying the stored flag.
set_val_own_bit(self, v) ==
    IF is_nan(v)
    THEN [self |-> self, ret |-> "Err"]
    ELSE [self |-> to_le_bytes(v), ret |-> "Ok"]

\* set_val that stores first and checks for NaN afterwards.
set_val_late_check(self, v) ==
    LET new_val0 == to_le_bytes(v)
        new_val1 == IF check_bit(self[SMALL_BYTE], 0) = 1
                    THEN [new_val0 EXCEPT ![SMALL_BYTE] = set_bit(new_val0[SMALL_BYTE], 0)]
                    ELSE [new_val0 EXCEPT ![SMALL_BYTE] = clear_bit(new_val0[SMALL_BYTE], 0)]
    IN  [self |-> new_val1, ret |-> IF is_nan(v) THEN "Err" ELSE "Ok"]

\* set_val without the NaN guard of lines 84-86.
set_val_no_guard(self, v) ==
    [self |-> set_val_late_check(self, v).self, ret |-> "Ok"]

set_val(self, v) ==
    IF is_nan(v)
    THEN [self |-> self, ret |-> "Err"]
    ELSE LET new_val0 == to_le_bytes(v)
             new_val1 == IF check_bit(self[SMALL_BYTE], 0) = 1
                         THEN [new_val0 EXCEPT ![SMALL_BYTE] = set_bit(new_val0[SMALL_BYTE], 0)]
                         ELSE [new_val0 EXCEPT ![SMALL_BYTE] = clear_bit(new_val0[SMALL_BYTE], 0)]
         IN  [self |-> new_val1, ret |-> "Ok"]

get_flag(self) ==
    [self |-> self,
     ret  |-> IF check_bit(self[SMALL_BYTE], 0) = 1 THEN TRUE ELSE FALSE]

\* set_flag with its two branches swapped.
set_flag_swapped(self, f) ==
    IF f
    THEN [self EXCEPT ![SMALL_BYTE] = clear_bit(self[SMALL_BYTE], 0)]
    ELSE [self EXCEPT ![SMALL_BYTE] = set_bit(self[SMALL_BYTE], 0)]

set_flag(self, f) ==
    IF f
    THEN [self EXCEPT ![SMALL_BYTE] = set_bit(self[SMALL_BYTE], 0)]
    ELSE [self EXCEPT ![SMALL_BYTE] = clear_bit(self[SMALL_BYTE], 0)]

(* ---------------------------- state machine ---------------------------- *)

\* No instance exists yet; op, val, flag, pre_ar, res, out_val, out_flag
\* record the last call, new_val and flags_only the value read right after
\* new and whether only set_flag calls and reads have followed it.
Init ==
    /\ live = FALSE
    /\ num_ar = NoBytes
    /\ op = "init"
    /\ val = PosZero
    /\ flag = FALSE
    /\ pre_ar = NoBytes
    /\ res = "none"
    /\ out_val = PosZero
    /\ out_flag = FALSE
    /\ new_val = PosZero
    /\ flags_only = FALSE

\* let fp = FP32WithFlag::new(v, f); a failed assert leaves no instance.
New(v, f) ==
    LET r == new(v, f) IN
    /\ live' = ~r.panic
    /\ num_ar' = r.num_ar
    /\ op' = "new"
    /\ val' = v
    /\ flag' = f
    /\ pre_ar' = NoBytes
    /\ res' = IF r.panic THEN "panic" ELSE "Ok"
    /\ out_val' = PosZero
    /\ out_flag' = FALSE
    /\ new_val' = IF r.panic THEN PosZero ELSE get_val(r.num_ar).ret
    /\ flags_only' = ~r.panic

GetVal ==
    /\ live
    /\ LET r == get_val(num_ar) IN
       /\ num_ar' = r.self
       /\ out_val' = r.ret
    /\ op' = "get_val"
    /\ val' = PosZero
    /\ flag' = FALSE
    /\ pre_ar' = num_ar
    /\ res' = "Ok"
    /\ out_flag' = FALSE
    /\ UNCHANGED <<live, new_val, flags_only>>

SetVal(v) ==
    /\ live
    /\ LET r == set_val(num_ar, v) IN
       /\ num_ar' = r.self
       /\ res' = r.ret
    /\ op' = "set_val"
    /\ val' = v
    /\ flag' = FALSE
    /\ pre_ar' = num_ar
    /\ out_val' = PosZero
    /\ out_flag' = FALSE
    /\ new_val' = PosZero
    /\ flags_only' = FALSE
    /\ UNCHANGED live

GetFlag ==
    /\ live
    /\ LET r == get_flag(num_ar) IN
       /\ num_ar' = r.self
       /\ out_flag' = r.ret
    /\ op' = "get_flag"
    /\ val' = PosZero
    /\ flag' = FALSE
    /\ pre_ar' = num_ar
    /\ res' = "Ok"
    /\ out_val' = PosZero
    /\ UNCHANGED <<live, new_val, flags_only>>

SetFlag(f) ==
    /\ live
    /\ num_ar' = set_flag(num_ar, f)
    /\ op' = "set_flag"
    /\ val' = PosZero
    /\ flag' = f
    /\ pre_ar' = num_ar
    /\ res' = "Ok"
    /\ out_val' = PosZero
    /\ out_flag' = FALSE
    /\ UNCHANGED <<live, new_val, flags_only>>

Next ==
    \/ \E v \in F32Inputs, f \in BOOLEAN : New(v, f)
    \/ GetVal
    \/ \E v \in F32Inputs : SetVal(v)
    \/ GetFlag
    \/ \E f \in BOOLEAN : SetFlag(f)

Spec == Init /\ [][Next]_vars

TypeOK ==
    /\ live \in BOOLEAN
    /\ num_ar \in [0..3 -> 0..255]
    /\ op \in {"init", "new", "get_val", "set_val", "get_flag", "set_flag"}
    /\ res \in {"none", "Ok", "Err", "panic"}
    /\ flag \in BOOLEAN
    /\ out_flag \in BOOLEAN
    /\ flags_only \in BOOLEAN

(* ------------------------------ properties ----------------------------- *)

StoredF32 == from_le_bytes(num_ar)

FlagBit(b) == b[SMALL_BYTE] % 2

\* C1 as stated: the stored 4 bytes, bit 0 included, are never a NaN bit
\* pattern.  Fails: an infinity stored with the flag set is 0x7F800001 or
\* 0xFF800001.
C1_StoredNeverNaN ==
    live => ~is_nan(StoredF32)

\* C1 amended: the stored 4 bytes are a NaN bit pattern only when they hold
\* an infinity with the flag set (exponent all ones, fraction exactly 1);
\* with bit 0 left out the stored pattern is never a NaN.
C1_StoredNaNOnlyFlaggedInf ==
    live => /\ is_nan(StoredF32) => StoredF32.exp = 255 /\ StoredF32.frac = 1
            /\ ~(StoredF32.exp = 255 /\ StoredF32.frac \div 2 # 0)

C1_Witness ==
    /\ live
    /\ op = "set_flag"
    /\ FlagBit(pre_ar) = 0
    /\ StoredF32 = F32(1, 255, 1)

\* C2: as long as only set_flag calls (and reads) have followed new(v, f1),
\* get_val() returns the very bits it returned right after new.
C2_FlagNeverChangesVal ==
    flags_only => /\ get_val(num_ar).ret = new_val
                  /\ op = "get_val" => out_val = new_val

C2_Witness ==
    /\ flags_only
    /\ op = "get_val"
    /\ FlagBit(num_ar) = 1
    /\ val = PosZero
    /\ out_val = F32(0, 128, 5452594)

\* C3: set_val(v) with a non-NaN v returns Ok, keeps the flag, and stores
\* the bits of v with bit 0 replaced by that flag.
C3_SetValKeepsFlag ==
    (op = "set_val" /\ ~is_nan(val)) =>
        /\ res = "Ok"
        /\ get_flag(num_ar).ret = get_flag(pre_ar).ret
        /\ StoredF32 = F32(val.sign, val.exp, 2 * (val.frac \div 2) + FlagBit(pre_ar))

C3_Witness ==
    /\ op = "set_val"
    /\ res = "Ok"
    /\ from_le_bytes(pre_ar) = F32(0, 130, 2^21 + 1)
    /\ val = F32(0, 128, 0)

\* C4: set_val(v) with any NaN v returns an error and leaves the 4 stored
\* bytes, hence get_val() and get_flag(), as they were.
C4_SetValNaNRejected ==
    (op = "set_val" /\ is_nan(val)) =>
        /\ res = "Err"
        /\ num_ar = pre_ar
        /\ get_val(num_ar).ret = get_val(pre_ar).ret
        /\ get_flag(num_ar).ret = get_flag(pre_ar).ret

C4_Witness ==
    /\ op = "set_val"
    /\ res = "Err"
    /\ val = F32(1, 255, 1)
    /\ FlagBit(pre_ar) = 1

\* C5: new(v, f) fails and produces no instance exactly when v is a NaN,
\* and produces an instance exactly when it is not.
C5_NewFailsIffNaN ==
    op = "new" => /\ (res = "panic" /\ ~live) <=> is_nan(val)
                  /\ (res = "Ok" /\ live) <=> ~is_nan(val)

C5_Witness ==
    /\ op = "new"
    /\ res = "panic"
    /\ ~live
    /\ val = F32(1, 255, 1)

\* C6: new(v, f) with a non-NaN v whose bit 0 is clear reads back as
\* exactly the bits of v and as the flag f.
C6_EvenRoundTrip ==
    (op = "new" /\ ~is_nan(val) /\ val.frac % 2 = 0) =>
        /\ live
        /\ get_val(num_ar).ret = val
        /\ get_flag(num_ar).ret = flag

C6_Witness ==
    /\ op = "new"
    /\ live
    /\ val = NEG_INFINITY
    /\ flag

\* C7: new(v, f) with a non-NaN v whose bit 0 is set reads back as the
\* pattern of v minus 1, which is not v.
C7_OddLosesOneUlp ==
    (op = "new" /\ ~is_nan(val) /\ val.frac % 2 = 1) =>
        /\ live
        /\ get_val(num_ar).ret # val
        /\ get_val(num_ar).ret = F32(val.sign, val.exp, val.frac - 1)

C7_Witness ==
    /\ op = "new"
    /\ live
    /\ val = F32(0, 128, 5452595)
    /\ flag

\* C8: set_flag(f) replaces bit 0 of byte 0 by f, leaves the other 31 bits
\* alone, and get_flag() then returns f.
C8_SetFlagSetsBit0 ==
    op = "set_flag" =>
        /\ num_ar[0] = 2 * (pre_ar[0] \div 2) + (IF flag THEN 1 ELSE 0)
        /\ \A i \in 1..3 : num_ar[i] = pre_ar[i]
        /\ get_flag(num_ar).ret = flag

C8_Witness ==
    /\ op = "set_flag"
    /\ ~flag
    /\ FlagBit(pre_ar) = 1
    /\ FlagBit(num_ar) = 0
    /\ pre_ar[0] > 1

\* C9: get_val() and get_flag() leave the 4 stored bytes unchanged.
C9_ReadsArePure ==
    op \in {"get_val", "get_flag"} => num_ar = pre_ar

C9_Witness ==
    /\ op = "get_val"
    /\ FlagBit(num_ar) = 1
    /\ out_val = F32(1, 0, 2)

\* C10: get_val() never returns a NaN: what it returns has bit 0 clear and
\* is finite or an infinity.
C10_GetValNeverNaN ==
    /\ op = "get_val" => ~is_nan(out_val) /\ out_val.frac % 2 = 0
    /\ live => ~is_nan(get_val(num_ar).ret)

C10_Witness ==
    /\ op = "get_val"
    /\ out_val = INFINITY
    /\ StoredF32 = F32(0, 255, 1)
    /\ ~flags_only
====
